---- MODULE Spec2Model ----
(***************************************************************************)
(* Cloud-MegaMerge: the document list of src/App.tsx (files, selectedIds,  *)
(* isDragging), its reorder handlers (handleMove, handleDragEnd) and the   *)
(* merge pipeline (handleMerge).  Arrays are TLA+ sequences; the code's    *)
(* 0-based indices are kept in the helpers (At, findIndex, splice), so the *)
(* definitions read like the source.                                       *)
(***************************************************************************)
EXTENDS Integers, Sequences, FiniteSets, TLC

\* ------------------------------------------------------------------ bounds
\* Longest document list of the list model, and the size of the id space.
MaxFiles == 4
\* Longest list handed to the merge pipeline, and how many merges end
\* (with a download or with an alert) in one run.
MaxMergeFiles == 2
MaxMerges == 2
\* Longest list of the rotation model.
MaxRotFiles == 3
\* Longest list of the model with stale ids, and how many exceptions it
\* lets escape.
MaxStaleFiles == 2
MaxErrors == 1
\* Longest list of the ingestion model.
MaxIngestFiles == 2

IdSpace == 1..MaxFiles
\* `undefined` where the code holds an id, an index result or a URL.
None == 0

\* ------------------------------------------------------- uploaded files
\* A File of the browser: its name (a sequence of characters), its MIME
\* hint (major, minor), and what pdf-lib finds in its bytes: whether they
\* load or decode at all (valid), the encoding of an image (enc), the
\* /Rotate of each page of a pdf (pages), and the page or pixel size (size).
PdfA   == [name |-> <<"a", ".", "p", "d", "f">>, mime |-> <<"application", "pdf">>,
           valid |-> TRUE, enc |-> "pdf", pages |-> <<0, 90>>, size |-> <<612, 792>>]
PdfB   == [name |-> <<"b", ".", "P", "D", "F">>, mime |-> <<"application", "pdf">>,
           valid |-> TRUE, enc |-> "pdf", pages |-> <<180, 270>>, size |-> <<612, 792>>]
PdfBad == [name |-> <<"x", ".", "p", "d", "f">>, mime |-> <<"application", "pdf">>,
           valid |-> FALSE, enc |-> "pdf", pages |-> <<>>, size |-> <<0, 0>>]
ImgPng == [name |-> <<"i", ".", "p", "n", "g">>, mime |-> <<"image", "png">>,
           valid |-> TRUE, enc |-> "png", pages |-> <<>>, size |-> <<64, 48>>]
ImgJpg == [name |-> <<"j", ".", "J", "P", "G">>, mime |-> <<"", "">>,
           valid |-> TRUE, enc |-> "jpeg", pages |-> <<>>, size |-> <<48, 64>>]
ImgWebp == [name |-> <<"w", ".", "w", "e", "b", "p">>, mime |-> <<"image", "webp">>,
           valid |-> TRUE, enc |-> "webp", pages |-> <<>>, size |-> <<32, 32>>]
Docx   == [name |-> <<"d", ".", "d", "o", "c", "x">>,
           mime |-> <<"application", "msword">>,
           valid |-> TRUE, enc |-> "docx", pages |-> <<>>, size |-> <<0, 0>>]
Txt    == [name |-> <<"r", "e", "p", "o", "r", "t", ".", "t", "x", "t">>,
           mime |-> <<"text", "plain">>,
           valid |-> TRUE, enc |-> "text", pages |-> <<>>, size |-> <<0, 0>>]

\* The file handles; an entry holds a handle, the pool holds the File.
Pool == [pdfA |-> PdfA, pdfB |-> PdfB, pdfBad |-> PdfBad, imgPng |-> ImgPng,
         imgJpg |-> ImgJpg, imgWebp |-> ImgWebp, docx |-> Docx, txt |-> Txt]
Handles == DOMAIN Pool

\* Files that are only uploaded (never merged): names and MIME hints that
\* do not go together.
Gif      == [name |-> <<"g", ".", "g", "i", "f">>, mime |-> <<"image", "gif">>,
             valid |-> TRUE, enc |-> "gif", pages |-> <<>>, size |-> <<16, 16>>]
Scan     == [name |-> <<"s", "c", "a", "n">>, mime |-> <<"image", "png">>,
             valid |-> TRUE, enc |-> "png", pages |-> <<>>, size |-> <<64, 48>>]
PngText  == [name |-> <<"n", ".", "p", "n", "g">>, mime |-> <<"text", "plain">>,
             valid |-> FALSE, enc |-> "text", pages |-> <<>>, size |-> <<0, 0>>]
PdfMixed == [name |-> <<"Q", ".", "P", "d", "F">>, mime |-> <<"", "">>,
             valid |-> TRUE, enc |-> "pdf", pages |-> <<0>>, size |-> <<612, 792>>]
Xlsx     == [name |-> <<"s", ".", "X", "L", "S", "X">>,
             mime |-> <<"application", "vnd.ms-excel">>,
             valid |-> TRUE, enc |-> "xlsx", pages |-> <<>>, size |-> <<0, 0>>]
PptBak   == [name |-> <<"p", ".", "p", "p", "t", ".", "b", "a", "k">>, mime |-> <<"", "">>,
             valid |-> TRUE, enc |-> "ppt", pages |-> <<>>, size |-> <<0, 0>>]
PdfImage == [name |-> <<"z", ".", "p", "d", "f">>, mime |-> <<"image", "png">>,
             valid |-> FALSE, enc |-> "png", pages |-> <<>>, size |-> <<64, 48>>]

Uploads == [gif |-> Gif, scan |-> Scan, pngText |-> PngText, pdfMixed |-> PdfMixed,
            xlsx |-> Xlsx, pptBak |-> PptBak, pdfImage |-> PdfImage]

\* The File behind a handle.
FileOf(handle) == IF handle \in Handles THEN Pool[handle] ELSE Uploads[handle]

\* ------------------------------------------------- src/types.ts, utils.ts
OFFICE_EXTENSIONS == << <<".", "d", "o", "c">>, <<".", "d", "o", "c", "x">>,
                        <<".", "x", "l", "s">>, <<".", "x", "l", "s", "x">>,
                        <<".", "p", "p", "t">>, <<".", "p", "p", "t", "x">> >>
IMAGE_EXTENSIONS == << <<".", "p", "n", "g">>, <<".", "j", "p", "g">>,
                       <<".", "j", "p", "e", "g">>, <<".", "w", "e", "b", "p">> >>

Upper == <<"A", "B", "C", "D", "E", "F", "G", "H", "I", "J", "K", "L", "M",
           "N", "O", "P", "Q", "R", "S", "T", "U", "V", "W", "X", "Y", "Z">>
Lower == <<"a", "b", "c", "d", "e", "f", "g", "h", "i", "j", "k", "l", "m",
           "n", "o", "p", "q", "r", "s", "t", "u", "v", "w", "x", "y", "z">>

\* String.prototype.toLowerCase, character by character.
toLowerCase(s) ==
  [i \in 1..Len(s) |->
     IF \E k \in 1..Len(Upper) : Upper[k] = s[i]
     THEN Lower[CHOOSE k \in 1..Len(Upper) : Upper[k] = s[i]]
     ELSE s[i]]

\* String.prototype.endsWith.
endsWith(s, suffix) ==
  /\ Len(suffix) <= Len(s)
  /\ SubSeq(s, Len(s) - Len(suffix) + 1, Len(s)) = suffix

\* EXTENSIONS.some(ext => lower.endsWith(ext)).
some(extensions, lower) ==
  \E i \in 1..Len(extensions) : endsWith(lower, extensions[i])

\* Mutant of getFileType: the name is compared as it is written.
getFileTypeCaseSensitive(fileName) ==
  LET lower == fileName
  IN  IF endsWith(lower, <<".", "p", "d", "f">>) THEN "pdf"
      ELSE IF some(IMAGE_EXTENSIONS, lower) THEN "image"
      ELSE IF some(OFFICE_EXTENSIONS, lower) THEN "office"
      ELSE "text"

getFileType(fileName) ==
  LET lower == toLowerCase(fileName)
  IN  IF endsWith(lower, <<".", "p", "d", "f">>) THEN "pdf"
      ELSE IF some(IMAGE_EXTENSIONS, lower) THEN "image"
      ELSE IF some(OFFICE_EXTENSIONS, lower) THEN "office"
      ELSE "text"

\* generateId: Math.random().toString(36).substr(2, 9), a random token; the
\* set of tokens one call can return.
generateId == IdSpace

\* ------------------------------------------------------------- the state
VARIABLES
  files,          \* useState<DocFile[]>: the document list
  selectedIds,    \* useState<Set<string>>: the selection
  isDragging,     \* useState(false): the drag gesture is under way
  isProcessing,   \* useState(false): a merge is in flight
  backendConfig,  \* useState<BackendConfig>: the url of the settings dialog
  merges,         \* the handleMerge invocations in flight (their closures)
  downloads,      \* the artifacts handed to the browser's download
  alerts,         \* how many failure alerts were shown
  backendCalls,   \* how many requests went to backendConfig.url
  revoked,        \* the object URLs handed to URL.revokeObjectURL, in order
  uncaught,       \* how many exceptions escaped a handler
  pendingMoves,   \* the performMove closures handed to startViewTransition
  last,           \* history: the handler that ran last, with its arguments
  prev,           \* history: files and selectedIds as that handler found them
  older           \* history: last and prev of the handler before, when recorded

listVars  == <<files, selectedIds, isDragging, uncaught, pendingMoves>>
mergeVars == <<isProcessing, backendConfig, merges, downloads, alerts, backendCalls,
               revoked>>
histVars  == <<last, prev, older>>
vars      == <<files, selectedIds, isDragging, uncaught, pendingMoves, isProcessing,
               backendConfig, merges, downloads, alerts, backendCalls, revoked,
               last, prev, older>>

\* ------------------------------------------------- JavaScript's arrays
Min(a, b) == IF a < b THEN a ELSE b
Max(a, b) == IF a > b THEN a ELSE b

\* array[i], 0-based.
At(array, i) == array[i + 1]

\* What array[i] is when i is outside the array.
UndefinedEntry == [id |-> None, file |-> "undefined", type |-> "undefined",
                   rotation |-> 0, previewUrl |-> None]

\* items.findIndex(i => i.id === id): the first match, or -1.
findIndex(items, id) ==
  IF \E i \in 1..Len(items) : items[i].id = id
  THEN (CHOOSE i \in 1..Len(items) :
          /\ items[i].id = id
          /\ \A j \in 1..(i - 1) : items[j].id # id) - 1
  ELSE -1

\* Where Array.prototype.splice(start, ...) starts: a negative start counts
\* from the end, and the result is clamped to the array.
spliceStart(array, start) ==
  IF start < 0 THEN Max(Len(array) + start, 0) ELSE Min(start, Len(array))

\* The elements array.splice(start, deleteCount) removes (its return value).
spliceRemoved(array, start, deleteCount) ==
  LET from == spliceStart(array, start)
      dc   == Min(Max(deleteCount, 0), Len(array) - from)
  IN  SubSeq(array, from + 1, from + dc)

\* The array after array.splice(start, deleteCount, ...items).
splice(array, start, deleteCount, items) ==
  LET from == spliceStart(array, start)
      dc   == Min(Max(deleteCount, 0), Len(array) - from)
  IN  SubSeq(array, 1, from) \o items \o SubSeq(array, from + dc + 1, Len(array))

\* Mutant of arrayMove: the element is copied to its new place and the one
\* after it is taken out of the array.
arrayMoveCopy(array, from, to) ==
  LET start == IF to < 0 THEN Len(array) + to ELSE to
      moved == IF spliceRemoved(array, from, 1) = <<>> THEN UndefinedEntry
               ELSE spliceRemoved(array, from, 1)[1]
  IN  splice(splice(array, from + 1, 1, <<>>), start, 0, <<moved>>)

\* arrayMove of @dnd-kit/sortable:
\*   newArray.splice(to < 0 ? newArray.length + to : to, 0,
\*                   newArray.splice(from, 1)[0])
\* The insertion index is computed before the element is taken out; taking
\* [0] of an empty removal yields undefined, which is then inserted.
arrayMove(array, from, to) ==
  LET start   == IF to < 0 THEN Len(array) + to ELSE to
      removed == spliceRemoved(array, from, 1)
      rest    == splice(array, from, 1, <<>>)
      moved   == IF removed = <<>> THEN UndefinedEntry ELSE removed[1]
  IN  splice(rest, start, 0, <<moved>>)

\* items.filter(i => selectedIds.has(i.id)) and its complement.
selectedItems(items, sel) ==
  LET keep(i) == i.id \in sel IN SelectSeq(items, keep)
unselectedItems(items, sel) ==
  LET keep(i) == i.id \notin sel IN SelectSeq(items, keep)

\* prev.map((f, i) => selectedIds.has(f.id) ? i : -1).filter(i => i !== -1)
indices(items, sel) == {i \in 0..(Len(items) - 1) : At(items, i).id \in sel}

SetMin(S) == CHOOSE x \in S : \A y \in S : x <= y
SetMax(S) == CHOOSE x \in S : \A y \in S : x >= y

\* The ids of a list, in order, and as a set.
idsOf(items) == [i \in 1..Len(items) |-> items[i].id]
idSet(items) == {items[i].id : i \in 1..Len(items)}

\* ------------------------------------------ handleDragEnd, src/App.tsx
\* Mutant of groupDrag: the drag direction is ignored, the block always
\* lands before the target.
groupDragAlwaysBefore(items, sel, activeId, overId) ==
  LET selItems   == selectedItems(items, sel)
      unselItems == unselectedItems(items, sel)
  IN  splice(unselItems, findIndex(unselItems, overId), 0, selItems)

\* Lines 101-114: the multi-selection is dropped on an unselected target.
groupDrag(items, sel, activeId, overId) ==
  LET selItems   == selectedItems(items, sel)
      unselItems == unselectedItems(items, sel)
      overIndexInUnselected == findIndex(unselItems, overId)
      originalActiveIndex   == findIndex(items, activeId)
      originalOverIndex     == findIndex(items, overId)
  IN  IF originalActiveIndex < originalOverIndex
      THEN splice(unselItems, overIndexInUnselected + 1, 0, selItems)
      ELSE splice(unselItems, overIndexInUnselected, 0, selItems)

\* The two entries at indices i and j exchanged (an index swap).
swapAt(items, i, j) ==
  [k \in 1..Len(items) |->
     IF k = i + 1 THEN items[j + 1] ELSE IF k = j + 1 THEN items[i + 1] ELSE items[k]]

\* Lines 115-121: the multi-selection is dropped on one of its own members.
selectedTargetDrag(items, activeId, overId) ==
  LET oldIndex == findIndex(items, activeId)
      newIndex == findIndex(items, overId)
  IN  arrayMove(items, oldIndex, newIndex)

\* Mutant of singleDrag: an index swap in place of arrayMove.
singleDragSwap(items, activeId, overId) ==
  swapAt(items, findIndex(items, activeId), findIndex(items, overId))

\* Lines 123-130: single item drag (standard).
singleDrag(items, activeId, overId) ==
  LET oldIndex == findIndex(items, activeId)
      newIndex == findIndex(items, overId)
  IN  arrayMove(items, oldIndex, newIndex)

\* The branch of line 86.
isGroup(sel, id) == id \in sel /\ Cardinality(sel) > 1

\* Mutant of dragEndFiles: the `!over` test of line 80 is missing.
dragEndFilesNoOverTest(items, sel, activeId, overId) ==
  IF activeId = overId THEN items
  ELSE IF isGroup(sel, activeId)
  THEN IF overId \notin sel
       THEN groupDrag(items, sel, activeId, overId)
       ELSE selectedTargetDrag(items, activeId, overId)
  ELSE singleDrag(items, activeId, overId)

\* The list handleDragEnd leaves for a drop of activeId on overId (lines
\* 80-130); overId = None: the drop has no target (event.over is null).
dragEndFiles(items, sel, activeId, overId) ==
  IF overId = None \/ activeId = overId THEN items
  ELSE IF isGroup(sel, activeId)
  THEN IF overId \notin sel
       THEN groupDrag(items, sel, activeId, overId)
       ELSE selectedTargetDrag(items, activeId, overId)
  ELSE singleDrag(items, activeId, overId)

\* --------------------------------------------- handleMove, src/App.tsx
\* Mutant of moveGroupUp: only the topmost selected entry moves up.
moveGroupUpTopOnly(items, sel) ==
  LET firstSelectedIndex == SetMin(indices(items, sel))
  IN  IF firstSelectedIndex = 0 THEN items
      ELSE arrayMove(items, firstSelectedIndex, firstSelectedIndex - 1)

\* Mutant of moveGroupUp: the block is spliced after the anchor.
moveGroupUpAfterAnchor(items, sel) ==
  LET selItems   == selectedItems(items, sel)
      unselItems == unselectedItems(items, sel)
      firstSelectedIndex == SetMin(indices(items, sel))
  IN  IF firstSelectedIndex = 0 THEN items
      ELSE LET itemAboveId == At(items, firstSelectedIndex - 1).id
               indexInUnselected == findIndex(unselItems, itemAboveId)
           IN  splice(unselItems, indexInUnselected + 1, 0, selItems)

\* Lines 178-191: the group moves up.
moveGroupUp(items, sel) ==
  LET selItems   == selectedItems(items, sel)
      unselItems == unselectedItems(items, sel)
      firstSelectedIndex == SetMin(indices(items, sel))
  IN  IF firstSelectedIndex = 0 THEN items
      ELSE LET itemAboveId == At(items, firstSelectedIndex - 1).id
               indexInUnselected == findIndex(unselItems, itemAboveId)
           IN  splice(unselItems, indexInUnselected, 0, selItems)

\* Mutant of moveGroupDown: the block is spliced before the anchor.
moveGroupDownBeforeAnchor(items, sel) ==
  LET selItems   == selectedItems(items, sel)
      unselItems == unselectedItems(items, sel)
      lastSelectedIndex == SetMax(indices(items, sel))
  IN  IF lastSelectedIndex = Len(items) - 1 THEN items
      ELSE LET itemBelowId == At(items, lastSelectedIndex + 1).id
               indexInUnselected == findIndex(unselItems, itemBelowId)
           IN  splice(unselItems, indexInUnselected, 0, selItems)

\* Lines 193-207: the group moves down.
moveGroupDown(items, sel) ==
  LET selItems   == selectedItems(items, sel)
      unselItems == unselectedItems(items, sel)
      lastSelectedIndex == SetMax(indices(items, sel))
  IN  IF lastSelectedIndex = Len(items) - 1 THEN items
      ELSE LET itemBelowId == At(items, lastSelectedIndex + 1).id
               indexInUnselected == findIndex(unselItems, itemBelowId)
           IN  splice(unselItems, indexInUnselected + 1, 0, selItems)

\* Math.min() / Math.max() of no index is +-Infinity, prev[+-Infinity] is
\* undefined, and reading its id throws a TypeError inside the updater.
moveGroupThrows(items, sel) == indices(items, sel) = {}

moveGroup(items, sel, direction) ==
  IF direction = "up" THEN moveGroupUp(items, sel) ELSE moveGroupDown(items, sel)

\* Mutant of moveSingle: 'down' moves the entry to the end of the list.
moveSingleDownToEnd(closureFiles, items, id, direction) ==
  LET index    == findIndex(closureFiles, id)
      newIndex == IF direction = "up" THEN index - 1 ELSE Len(closureFiles) - 1
  IN  IF index = -1 THEN items
      ELSE IF newIndex < 0 \/ newIndex >= Len(closureFiles) THEN items
      ELSE arrayMove(items, index, newIndex)

\* Mutant of moveSingle: no bounds test, the index is clamped by splice.
moveSingleNoBounds(closureFiles, items, id, direction) ==
  LET index    == findIndex(closureFiles, id)
      newIndex == IF direction = "up" THEN index - 1 ELSE index + 1
  IN  IF index = -1 THEN items
      ELSE arrayMove(items, index, newIndex)

\* Lines 212-218: the single item moves; index and the bounds come from the
\* handler's `files`, the move is applied to the list of the updater.
moveSingle(closureFiles, items, id, direction) ==
  LET index    == findIndex(closureFiles, id)
      newIndex == IF direction = "up" THEN index - 1 ELSE index + 1
  IN  IF index = -1 THEN items
      ELSE IF newIndex < 0 \/ newIndex >= Len(closureFiles) THEN items
      ELSE arrayMove(items, index, newIndex)

\* ----------------------------------------------------------- history
Did(op, id, over, dir) == [op |-> op, id |-> id, over |-> over, dir |-> dir]
Snapshot == [files |-> files, selectedIds |-> selectedIds, isDragging |-> isDragging,
             downloads |-> downloads, alerts |-> alerts]
\* The step before the last one is kept only by the specifications that
\* start with older.on.
Older == IF older.on THEN [on |-> TRUE, last |-> last, prev |-> prev] ELSE older

\* ------------------------------------------------------- the list model
\* Mutant of nextRotation: no wrap at 360.
nextRotationNoWrap(rotation) == rotation + 90

\* (f.rotation + 90) % 360
nextRotation(rotation) == (rotation + 90) % 360

\* file.type.startsWith('image/') ? URL.createObjectURL(file) : undefined;
\* the object URL minted for the entry is named by the entry's id.
previewUrlOf(file, id) == IF file.mime[1] = "image" THEN id ELSE None

\* The DocFile handleFilesSelected builds for one File (lines 59-67).
newDocFile(handle, id) ==
  [id |-> id, file |-> handle, type |-> getFileType(FileOf(handle).name),
   rotation |-> 0, previewUrl |-> previewUrlOf(FileOf(handle), id)]

\* Mutant of handleFilesSelected: the new entries go in front of the list.
handleFilesSelectedInFront(fileList, ids) ==
  /\ Len(ids) = Len(fileList)
  /\ Len(files) + Len(fileList) <= MaxFiles
  /\ files' = [i \in 1..Len(fileList) |-> newDocFile(fileList[i], ids[i])] \o files
  /\ last' = Did("append", ids, fileList, "none")
  /\ prev' = Snapshot
  /\ older' = Older
  /\ UNCHANGED <<selectedIds, isDragging, uncaught, mergeVars, pendingMoves>>

\* handleFilesSelected: fileList is the batch, ids the tokens generateId
\* returned for its files, in order.
\* (The history keeps the batch: its ids and its files.)
handleFilesSelected(fileList, ids) ==
  /\ Len(ids) = Len(fileList)
  /\ Len(files) + Len(fileList) <= MaxFiles
  /\ files' = files \o [i \in 1..Len(fileList) |-> newDocFile(fileList[i], ids[i])]
  /\ last' = Did("append", ids, fileList, "none")
  /\ prev' = Snapshot
  /\ older' = Older
  /\ UNCHANGED <<selectedIds, isDragging, uncaught, mergeVars, pendingMoves>>

handleDragStart ==
  /\ files # <<>>
  /\ ~isDragging
  /\ isDragging' = TRUE
  /\ last' = Did("dragStart", None, None, "none")
  /\ prev' = Snapshot
  /\ older' = Older
  /\ UNCHANGED <<files, selectedIds, uncaught, mergeVars, pendingMoves>>

handleDragEnd(activeId, overId) ==
  /\ isDragging
  /\ isDragging' = FALSE
  /\ files' = dragEndFiles(files, selectedIds, activeId, overId)
  /\ last' = Did("dragEnd", activeId, overId, "none")
  /\ prev' = Snapshot
  /\ older' = Older
  /\ UNCHANGED <<selectedIds, uncaught, mergeVars, pendingMoves>>

handleRotate(id) ==
  /\ files' = [i \in 1..Len(files) |->
                 IF files[i].id = id
                 THEN [files[i] EXCEPT !.rotation = nextRotation(@)]
                 ELSE files[i]]
  /\ last' = Did("rotate", id, None, "none")
  /\ prev' = Snapshot
  /\ older' = Older
  /\ UNCHANGED <<selectedIds, isDragging, uncaught, mergeVars, pendingMoves>>

\* Mutant of handleBulkRotate: every entry is rotated, selected or not.
handleBulkRotateAll ==
  /\ files # <<>> /\ selectedIds # {}
  /\ files' = [i \in 1..Len(files) |->
                 [files[i] EXCEPT !.rotation = nextRotation(@)]]
  /\ last' = Did("bulkRotate", None, None, "none")
  /\ prev' = Snapshot
  /\ older' = Older
  /\ UNCHANGED <<selectedIds, isDragging, uncaught, mergeVars, pendingMoves>>

handleBulkRotate ==
  /\ files # <<>> /\ selectedIds # {}
  /\ files' = [i \in 1..Len(files) |->
                 IF files[i].id \in selectedIds
                 THEN [files[i] EXCEPT !.rotation = nextRotation(@)]
                 ELSE files[i]]
  /\ last' = Did("bulkRotate", None, None, "none")
  /\ prev' = Snapshot
  /\ older' = Older
  /\ UNCHANGED <<selectedIds, isDragging, uncaught, mergeVars, pendingMoves>>

\* Mutant of handleDelete: the whole selection is dropped.
handleDeleteClearsSelection(id) ==
  /\ files' = LET keep(f) == f.id # id IN SelectSeq(files, keep)
  /\ selectedIds' = {}
  /\ last' = Did("delete", id, None, "none")
  /\ prev' = Snapshot
  /\ older' = Older
  /\ UNCHANGED <<isDragging, uncaught, mergeVars, pendingMoves>>

\* Mutant of handleDelete: the id stays in the selection.
handleDeleteKeepSelection(id) ==
  /\ files' = LET keep(f) == f.id # id IN SelectSeq(files, keep)
  /\ selectedIds' = selectedIds
  /\ last' = Did("delete", id, None, "none")
  /\ prev' = Snapshot
  /\ older' = Older
  /\ UNCHANGED <<isDragging, uncaught, mergeVars, pendingMoves>>

handleDelete(id) ==
  /\ files' = LET keep(f) == f.id # id IN SelectSeq(files, keep)
  /\ selectedIds' = selectedIds \ {id}
  /\ last' = Did("delete", id, None, "none")
  /\ prev' = Snapshot
  /\ older' = Older
  /\ UNCHANGED <<isDragging, uncaught, mergeVars, pendingMoves>>

\* Mutant of handleBulkDelete: the selection is left as it was.
handleBulkDeleteKeepSelection ==
  /\ files # <<>> /\ selectedIds # {}
  /\ files' = unselectedItems(files, selectedIds)
  /\ selectedIds' = selectedIds
  /\ last' = Did("bulkDelete", None, None, "none")
  /\ prev' = Snapshot
  /\ older' = Older
  /\ UNCHANGED <<isDragging, uncaught, mergeVars, pendingMoves>>

handleBulkDelete ==
  /\ files # <<>> /\ selectedIds # {}
  /\ files' = unselectedItems(files, selectedIds)
  /\ selectedIds' = {}
  /\ last' = Did("bulkDelete", None, None, "none")
  /\ prev' = Snapshot
  /\ older' = Older
  /\ UNCHANGED <<isDragging, uncaught, mergeVars, pendingMoves>>

\* The "Borrar todo" button (lines 454-459), shown when nothing is selected.
clearAll ==
  /\ files # <<>> /\ selectedIds = {}
  /\ files' = <<>>
  /\ selectedIds' = {}
  /\ last' = Did("clearAll", None, None, "none")
  /\ prev' = Snapshot
  /\ older' = Older
  /\ UNCHANGED <<isDragging, uncaught, mergeVars, pendingMoves>>

\* handleMove with performMove run at once (no View Transitions API, or
\* its callback run before any other event): the closure is the state.
handleMove(id, direction) ==
  /\ IF isGroup(selectedIds, id)
     THEN IF moveGroupThrows(files, selectedIds)
          THEN files' = files /\ uncaught' = uncaught + 1
          ELSE files' = moveGroup(files, selectedIds, direction)
               /\ uncaught' = uncaught
     ELSE files' = moveSingle(files, files, id, direction)
          /\ uncaught' = uncaught
  /\ last' = Did("move", id, None, direction)
  /\ prev' = Snapshot
  /\ older' = Older
  /\ UNCHANGED <<selectedIds, isDragging, mergeVars, pendingMoves>>

toggleSelection(id) ==
  /\ selectedIds' = IF id \in selectedIds THEN selectedIds \ {id}
                    ELSE selectedIds \cup {id}
  /\ last' = Did("toggleSelect", id, None, "none")
  /\ prev' = Snapshot
  /\ older' = Older
  /\ UNCHANGED <<files, isDragging, uncaught, mergeVars, pendingMoves>>

\* Mutant of toggleSelectAll: it always selects every entry.
toggleSelectAllNeverClears ==
  /\ files # <<>>
  /\ selectedIds' = idSet(files)
  /\ last' = Did("toggleSelectAll", None, None, "none")
  /\ prev' = Snapshot
  /\ older' = Older
  /\ UNCHANGED <<files, isDragging, uncaught, mergeVars, pendingMoves>>

toggleSelectAll ==
  /\ files # <<>>
  /\ selectedIds' = IF Cardinality(selectedIds) = Len(files) THEN {}
                    ELSE idSet(files)
  /\ last' = Did("toggleSelectAll", None, None, "none")
  /\ prev' = Snapshot
  /\ older' = Older
  /\ UNCHANGED <<files, isDragging, uncaught, mergeVars, pendingMoves>>

\* ------------------------------------------------ the list specification
\* The files the list specification uploads, and the batches it hands to
\* handleFilesSelected: one file or two, with the ids generateId drew for
\* them.  Math.random's tokens are taken to be distinct from each other and
\* from the ids in the list.
ListUploads == {"imgPng"}
Batches(S) == {<<a>> : a \in S} \cup {<<a, b>> : a \in S, b \in S}
freshIds(items, n) ==
  {ids \in [1..n -> generateId \ idSet(items)] :
     \A i, j \in 1..n : i # j => ids[i] # ids[j]}

Init ==
  /\ files = <<>>
  /\ selectedIds = {}
  /\ isDragging = FALSE
  /\ uncaught = 0
  /\ pendingMoves = <<>>
  /\ isProcessing = FALSE
  /\ backendConfig = ""
  /\ merges = <<>>
  /\ downloads = <<>>
  /\ alerts = 0
  /\ backendCalls = 0
  /\ revoked = <<>>
  /\ last = Did("init", None, None, "none")
  /\ prev = [files |-> <<>>, selectedIds |-> {}, isDragging |-> FALSE,
             downloads |-> <<>>, alerts |-> 0]
  /\ older = [on |-> FALSE]

Upload ==
  \E fileList \in Batches(ListUploads) :
    \E ids \in freshIds(files, Len(fileList)) : handleFilesSelected(fileList, ids)
DragEnd ==
  \E activeId \in idSet(files) :
    \E overId \in idSet(files) \cup {None} : handleDragEnd(activeId, overId)
Rotate == \E id \in idSet(files) : handleRotate(id)
Delete == \E id \in idSet(files) : handleDelete(id)
Move == \E id \in idSet(files) : \E direction \in {"up", "down"} : handleMove(id, direction)
ToggleSelect == \E id \in idSet(files) : toggleSelection(id)

Next ==
  \/ Upload
  \/ handleDragStart
  \/ DragEnd
  \/ Delete
  \/ handleBulkDelete
  \/ clearAll
  \/ Move
  \/ ToggleSelect
  \/ toggleSelectAll

Spec == Init /\ [][Next]_vars

\* ------------------------------------------- handleMerge, src/App.tsx
Rotations == {0, 90, 180, 270}
A4 == <<595, 842>>

\* A page of the output: the position in the merged list of the entry it
\* comes from (history), what it is, its index in its source, its /Rotate
\* and its size.
Page(entry, kind, index, rotation, size) ==
  [entry |-> entry, kind |-> kind, index |-> index, rotation |-> rotation,
   size |-> size]

\* Mutant of setRotation: the entry's rotation replaces the page's own.
setRotationReplace(existingRotation, rotation) == rotation

\* Lines 266-267: page.setRotation(degrees(existingRotation + docFile.rotation));
\* pdf-lib stores the angle it is given (any multiple of 90).
setRotation(existingRotation, rotation) == existingRotation + rotation

\* Line 274: the image goes to embedJpg.
isJpeg(file) ==
  \/ file.mime = <<"image", "jpeg">>
  \/ endsWith(toLowerCase(file.name), <<".", "j", "p", "g">>)
  \/ endsWith(toLowerCase(file.name), <<".", "j", "p", "e", "g">>)

\* Whether pdf-lib accepts the entry's bytes: PDFDocument.load for a pdf,
\* embedJpg or embedPng for an image; a placeholder page reads no bytes.
canProcess(docFile) ==
  LET file == Pool[docFile.file]
  IN  IF docFile.type = "pdf" THEN file.valid
      ELSE IF docFile.type = "image"
      THEN file.valid /\ file.enc = (IF isJpeg(file) THEN "jpeg" ELSE "png")
      ELSE TRUE

\* The pages one entry adds to mergedPdf (lines 258-347); position is the
\* entry's index in the merged list.
entryPages(docFile, position) ==
  LET file == Pool[docFile.file]
  IN  IF docFile.type = "pdf"
      THEN [k \in 1..Len(file.pages) |->
              Page(position, "pdf", k - 1,
                   setRotation(file.pages[k], docFile.rotation), file.size)]
      ELSE IF docFile.type = "image"
      THEN <<Page(position, "image", 0, docFile.rotation, file.size)>>
      ELSE <<Page(position, "placeholder", 0, 0, A4)>>

\* The requests the pipeline sends to backendConfig.url for one entry: the
\* office/text branch (lines 292-347) draws the placeholder and sends none.
backendRequests(docFile, config) == 0

\* Mutant of addPages: the new pages are inserted at the front.
addPagesInFront(pages, new) == new \o pages

\* mergedPdf.addPage: the pages go to the end of the document.
addPages(pages, new) == pages \o new

\* A sequence without its t-th element.
without(seq, t) == SubSeq(seq, 1, t - 1) \o SubSeq(seq, t + 1, Len(seq))

\* Mutant of handleMerge: the button is not disabled while isProcessing.
handleMergeUngated ==
  /\ Len(downloads) + alerts + Len(merges) < MaxMerges
  /\ IF files = <<>>
     THEN UNCHANGED <<isProcessing, merges>>
     ELSE /\ isProcessing' = TRUE
          /\ merges' = Append(merges, [files |-> files, i |-> 0, pages |-> <<>>,
                                       start |-> Snapshot])
  /\ last' = Did("merge", None, None, "none")
  /\ prev' = Snapshot
  /\ older' = Older
  /\ UNCHANGED <<listVars, backendConfig, downloads, alerts, backendCalls, revoked>>

\* The click on the merge button: disabled while isProcessing (line 514);
\* the handler returns at once on an empty list (line 247), otherwise it
\* sets the flag and starts the pass over its own `files`.
handleMerge ==
  /\ ~isProcessing
  /\ Len(downloads) + alerts + Len(merges) < MaxMerges
  /\ IF files = <<>>
     THEN UNCHANGED <<isProcessing, merges>>
     ELSE /\ isProcessing' = TRUE
          /\ merges' = Append(merges, [files |-> files, i |-> 0, pages |-> <<>>,
                                       start |-> Snapshot])
  /\ last' = Did("merge", None, None, "none")
  /\ prev' = Snapshot
  /\ older' = Older
  /\ UNCHANGED <<listVars, backendConfig, downloads, alerts, backendCalls, revoked>>

\* Mutant of mergeStep: the turn reads the entry from the list as it is
\* now, where it still has one at that index.
mergeStepLive(t) ==
  LET task    == merges[t]
      docFile == IF task.i < Len(files) THEN At(files, task.i)
                 ELSE At(task.files, task.i)
  IN  /\ task.i < Len(task.files)
      /\ canProcess(docFile)
      /\ merges' = [merges EXCEPT ![t] =
                      [@ EXCEPT !.i = @ + 1,
                                !.pages = addPages(@, entryPages(docFile, task.i))]]
      /\ backendCalls' = backendCalls + backendRequests(docFile, backendConfig)
      /\ last' = Did("mergeStep", task.i, Len(task.pages), "none")
      /\ prev' = task.start
      /\ older' = Older
      /\ UNCHANGED <<listVars, isProcessing, backendConfig, downloads, alerts, revoked>>

\* One turn of the for loop of line 255, for the t-th merge in flight.
mergeStep(t) ==
  LET task    == merges[t]
      docFile == At(task.files, task.i)
  IN  /\ task.i < Len(task.files)
      /\ canProcess(docFile)
      /\ merges' = [merges EXCEPT ![t] =
                      [@ EXCEPT !.i = @ + 1,
                                !.pages = addPages(@, entryPages(docFile, task.i))]]
      /\ backendCalls' = backendCalls + backendRequests(docFile, backendConfig)
      /\ last' = Did("mergeStep", task.i, Len(task.pages), "none")
      /\ prev' = task.start
      /\ older' = Older
      /\ UNCHANGED <<listVars, isProcessing, backendConfig, downloads, alerts, revoked>>

\* Mutant of mergeFail: the catch block downloads what was merged so far.
mergeFailPartial(t) ==
  LET task == merges[t]
  IN  /\ task.i < Len(task.files)
      /\ alerts' = alerts + 1
      /\ downloads' = Append(downloads, [pages |-> task.pages, source |-> task.files])
      /\ isProcessing' = FALSE
      /\ merges' = without(merges, t)
      /\ last' = Did("mergeFail", task.i, Len(task.pages), "none")
      /\ prev' = task.start
      /\ older' = Older
      /\ UNCHANGED <<listVars, backendConfig, backendCalls, revoked>>

\* Mutant of mergeFail: no finally block, the flag stays set after a failure.
mergeFailKeepsFlag(t) ==
  LET task == merges[t]
  IN  /\ task.i < Len(task.files)
      /\ alerts' = alerts + 1
      /\ merges' = without(merges, t)
      /\ last' = Did("mergeFail", task.i, Len(task.pages), "none")
      /\ prev' = task.start
      /\ older' = Older
      /\ UNCHANGED <<listVars, isProcessing, backendConfig, downloads, backendCalls,
                     revoked>>

\* An await of the turn rejects (the bytes cannot be read, loaded, decoded,
\* or a font cannot be embedded): catch and finally, lines 364-369.
mergeFail(t) ==
  LET task == merges[t]
  IN  /\ task.i < Len(task.files)
      /\ alerts' = alerts + 1
      /\ isProcessing' = FALSE
      /\ merges' = without(merges, t)
      /\ last' = Did("mergeFail", task.i, Len(task.pages), "none")
      /\ prev' = task.start
      /\ older' = Older
      /\ UNCHANGED <<listVars, backendConfig, downloads, backendCalls, revoked>>

\* The object URL line 355 mints for the merged blob.
downloadUrl == "blob:merged"

\* After the loop: save and download (lines 351-362, the object URL of the
\* blob is revoked at line 362), then finally.
mergeSave(t) ==
  LET task == merges[t]
  IN  /\ task.i = Len(task.files)
      /\ downloads' = Append(downloads, [pages |-> task.pages, source |-> task.files])
      /\ revoked' = Append(revoked, downloadUrl)
      /\ isProcessing' = FALSE
      /\ merges' = without(merges, t)
      /\ last' = Did("mergeSave", task.i, Len(task.pages), "none")
      /\ prev' = task.start
      /\ older' = Older
      /\ UNCHANGED <<listVars, backendConfig, alerts, backendCalls>>

\* SettingsModal's handleSave: onSave({ url }).
onSave(url) ==
  /\ backendConfig' = url
  /\ last' = Did("saveSettings", None, None, "none")
  /\ prev' = Snapshot
  /\ older' = Older
  /\ UNCHANGED <<listVars, isProcessing, merges, downloads, alerts, backendCalls,
                 revoked>>

\* ---------------------------------------------- the merge specification
\* The lists handed to the pipeline: every list of up to MaxMergeFiles
\* uploaded files, each rotated 0 to 3 times, with any selection.
Urls == {"", "https://backend"}
MergeLists ==
  UNION {{[i \in 1..n |-> [newDocFile(c[i][1], i) EXCEPT !.rotation = c[i][2]]] :
            c \in [1..n -> Handles \X Rotations]} : n \in 0..MaxMergeFiles}

InitMerge ==
  /\ files \in MergeLists
  /\ selectedIds \in SUBSET idSet(files)
  /\ isDragging = FALSE
  /\ uncaught = 0
  /\ pendingMoves = <<>>
  /\ isProcessing = FALSE
  /\ backendConfig = ""
  /\ merges = <<>>
  /\ downloads = <<>>
  /\ alerts = 0
  /\ backendCalls = 0
  /\ revoked = <<>>
  /\ last = Did("init", None, None, "none")
  /\ prev = [files |-> <<>>, selectedIds |-> {}, isDragging |-> FALSE,
             downloads |-> <<>>, alerts |-> 0]
  /\ older = [on |-> FALSE]

SaveSettings == \E url \in Urls : onSave(url)
MergeStep == \E t \in 1..Len(merges) : mergeStep(t)
MergeFail == \E t \in 1..Len(merges) : mergeFail(t)
MergeSave == \E t \in 1..Len(merges) : mergeSave(t)

NextMerge ==
  \/ SaveSettings
  \/ handleMerge
  \/ MergeStep
  \/ MergeFail
  \/ MergeSave

SpecMerge == InitMerge /\ [][NextMerge]_vars

\* ------------------------------------------ the fair merge specification
\* Every await of handleMerge settles (the bytes are read or the read
\* rejects, pdf-lib returns or throws) and the event loop runs the
\* continuation: a merge in flight takes its next turn, fails or saves.
MergeProgress == MergeStep \/ MergeFail \/ MergeSave

SpecFair == InitMerge /\ [][NextMerge]_vars /\ WF_vars(MergeProgress)

\* ------------------------------------------- the rotation specification
\* The whole list model with the rotate buttons, over lists of up to
\* MaxRotFiles entries.
UploadShort ==
  \E fileList \in Batches(ListUploads) :
    \E ids \in freshIds(files, Len(fileList)) :
      /\ Len(files) + Len(fileList) <= MaxRotFiles
      /\ handleFilesSelected(fileList, ids)

NextRotate ==
  \/ UploadShort
  \/ handleDragStart
  \/ DragEnd
  \/ Rotate
  \/ handleBulkRotate
  \/ Delete
  \/ handleBulkDelete
  \/ clearAll
  \/ Move
  \/ ToggleSelect
  \/ toggleSelectAll

SpecRotate == Init /\ [][NextRotate]_vars

\* ------------------------------------------------- the id specification
\* The list with the ids as generateId hands them out: each call returns
\* any token, whatever ids the list or the batch already hold (lines 59-60
\* look at no id).
UploadAny ==
  \E fileList \in Batches(ListUploads) :
    \E ids \in [1..Len(fileList) -> generateId] : handleFilesSelected(fileList, ids)

NextIds ==
  \/ UploadAny
  \/ Delete
  \/ ToggleSelect
  \/ toggleSelectAll
  \/ handleBulkDelete
  \/ clearAll

SpecIds == Init /\ [][NextIds]_vars

\* ----------------------------------------- the round-trip specification
\* The list model with the move buttons, recording the last two handlers.
InitTrip ==
  /\ files = <<>>
  /\ selectedIds = {}
  /\ isDragging = FALSE
  /\ uncaught = 0
  /\ pendingMoves = <<>>
  /\ isProcessing = FALSE
  /\ backendConfig = ""
  /\ merges = <<>>
  /\ downloads = <<>>
  /\ alerts = 0
  /\ backendCalls = 0
  /\ revoked = <<>>
  /\ last = Did("init", None, None, "none")
  /\ prev = [files |-> <<>>, selectedIds |-> {}, isDragging |-> FALSE,
             downloads |-> <<>>, alerts |-> 0]
  /\ older = [on |-> TRUE, last |-> Did("init", None, None, "none"),
              prev |-> [files |-> <<>>, selectedIds |-> {}, isDragging |-> FALSE,
                        downloads |-> <<>>, alerts |-> 0]]

NextTrip ==
  \/ UploadShort
  \/ Move
  \/ ToggleSelect
  \/ Delete

SpecTrip == InitTrip /\ [][NextTrip]_vars

\* -------------------------------------------- the ingestion specification
\* Uploads of the upload-only files, one or two at a time, into lists
\* of up to MaxIngestFiles entries that are then rotated, moved, selected
\* and deleted.  The tokens of generateId are the lowest ones not in the
\* list, in increasing order (one of the choices of freshIds).
IngestUploads == DOMAIN Uploads

lowestIds(items, n) ==
  {ids \in freshIds(items, n) :
     /\ \A i \in 1..n : \A t \in generateId \ idSet(items) :
          t < ids[i] => \E j \in 1..n : ids[j] = t
     /\ \A i, j \in 1..n : i < j => ids[i] < ids[j]}

UploadIngest ==
  \E fileList \in Batches(IngestUploads) :
    \E ids \in lowestIds(files, Len(fileList)) :
      /\ Len(files) + Len(fileList) <= MaxIngestFiles
      /\ handleFilesSelected(fileList, ids)

NextIngest ==
  \/ UploadIngest
  \/ Rotate
  \/ Move
  \/ ToggleSelect
  \/ Delete

SpecIngest == Init /\ [][NextIngest]_vars

\* ------------------------------------------------ the stale-id specification
\* The handlers called with any token, whether or not an entry of the list
\* has it as its id (a second click on an entry that is gone).
UploadStale ==
  \E fileList \in Batches(ListUploads) :
    \E ids \in freshIds(files, Len(fileList)) :
      /\ Len(files) + Len(fileList) <= MaxStaleFiles
      /\ handleFilesSelected(fileList, ids)
RotateAny == \E id \in IdSpace : handleRotate(id)
DeleteAny == \E id \in IdSpace : handleDelete(id)
MoveAny ==
  /\ uncaught < MaxErrors
  /\ \E id \in IdSpace : \E direction \in {"up", "down"} : handleMove(id, direction)
ToggleSelectAny == \E id \in IdSpace : toggleSelection(id)
DragEndAny ==
  \E activeId \in IdSpace : \E overId \in IdSpace \cup {None} :
    handleDragEnd(activeId, overId)

NextStale ==
  \/ UploadStale
  \/ RotateAny
  \/ DeleteAny
  \/ MoveAny
  \/ ToggleSelectAny
  \/ handleDragStart
  \/ DragEndAny

SpecStale == Init /\ [][NextStale]_vars

\* ------------------------------------------- the deferred-move specification
\* Lines 221-225: where document.startViewTransition exists, handleMove
\* only hands performMove to it; the callback runs later, after whatever
\* handlers ran in between, with the `files` and `selectedIds` of the
\* render in which the button was clicked.
MaxDeferFiles == 3
MaxPending == 1

Closure(id, direction) ==
  [id |-> id, direction |-> direction, files |-> files, selectedIds |-> selectedIds]

handleMoveDeferred(id, direction) ==
  /\ pendingMoves' = Append(pendingMoves, Closure(id, direction))
  /\ last' = Did("startViewTransition", id, None, direction)
  /\ prev' = Snapshot
  /\ older' = Older
  /\ UNCHANGED <<files, selectedIds, isDragging, uncaught, mergeVars>>

\* The callback of the oldest transition: performMove of lines 168-219 with
\* its closure c, the updaters applied to the list as it is now.
performMove ==
  /\ pendingMoves # <<>>
  /\ LET c == Head(pendingMoves)
     IN  /\ IF isGroup(c.selectedIds, c.id)
            THEN IF moveGroupThrows(files, c.selectedIds)
                 THEN files' = files /\ uncaught' = uncaught + 1
                 ELSE files' = moveGroup(files, c.selectedIds, c.direction)
                      /\ uncaught' = uncaught
            ELSE files' = moveSingle(c.files, files, c.id, c.direction)
                 /\ uncaught' = uncaught
         /\ last' = Did("performMove", c.id, c, c.direction)
  /\ pendingMoves' = Tail(pendingMoves)
  /\ prev' = Snapshot
  /\ older' = Older
  /\ UNCHANGED <<selectedIds, isDragging, mergeVars>>

\* Lines 472-476: rendering the list reads file.id of every entry, so a
\* list holding undefined takes the application down.
renderThrows == \E i \in 1..Len(files) : files[i] = UndefinedEntry

UploadDefer ==
  /\ ~renderThrows
  /\ \E fileList \in Batches(ListUploads) :
       \E ids \in lowestIds(files, Len(fileList)) :
         /\ Len(files) + Len(fileList) <= MaxDeferFiles
         /\ handleFilesSelected(fileList, ids)
DeleteDefer == ~renderThrows /\ \E id \in idSet(files) : handleDelete(id)
ToggleSelectDefer == ~renderThrows /\ \E id \in idSet(files) : toggleSelection(id)
DragStartDefer == ~renderThrows /\ handleDragStart
DragEndDefer ==
  /\ ~renderThrows
  /\ \E activeId \in idSet(files) : \E overId \in idSet(files) \cup {None} :
       handleDragEnd(activeId, overId)
ClickMove ==
  /\ ~renderThrows
  /\ Len(pendingMoves) < MaxPending
  /\ uncaught < MaxErrors
  /\ \E id \in idSet(files) : \E direction \in {"up", "down"} :
       handleMoveDeferred(id, direction)
RunMove == ~renderThrows /\ performMove

NextDefer ==
  \/ UploadDefer
  \/ DeleteDefer
  \/ ToggleSelectDefer
  \/ DragStartDefer
  \/ DragEndDefer
  \/ ClickMove
  \/ RunMove

SpecDefer == Init /\ [][NextDefer]_vars

\* --------------------------------------- the merge-while-editing specification
\* handleMerge is async: between two awaits of its loop the list handlers
\* run.  The uploads are images the pipeline can process, told apart in the
\* output by their rotations.
MaxLiveFiles == 2
MaxLiveMerges == 1

UploadLive ==
  \E fileList \in Batches(ListUploads) :
    \E ids \in lowestIds(files, Len(fileList)) :
      /\ Len(files) + Len(fileList) <= MaxLiveFiles
      /\ handleFilesSelected(fileList, ids)

\* The merge button, for the first MaxLiveMerges merges.
MergeLive ==
  /\ Len(downloads) + alerts + Len(merges) < MaxLiveMerges
  /\ handleMerge

NextLive ==
  \/ UploadLive
  \/ Rotate
  \/ Delete
  \/ Move
  \/ ToggleSelect
  \/ MergeLive
  \/ MergeStep
  \/ MergeFail
  \/ MergeSave

SpecLive == Init /\ [][NextLive]_vars

\* =================================================================== claims
\* What the claims speak of, stated over the history: the handler that ran
\* last (last), the list and selection it found (prev) and what it left.

\* The selected entries of `items` occupy consecutive positions.
Contiguous(items, sel) ==
  LET pos == indices(items, sel)
  IN  pos = {} \/ pos = SetMin(pos)..SetMax(pos)

\* The selected sub-sequence of `before` sits in `after` as one block whose
\* first entry is at 0-based index start.
BlockAt(after, before, sel, start) ==
  LET block == selectedItems(before, sel)
  IN  /\ start >= 0 /\ start + Len(block) <= Len(after)
      /\ \A k \in 0..(Len(block) - 1) : At(after, start + k) = block[k + 1]

\* The unselected entries are the same, in the same relative order.
UnselectedKept(after, before, sel) ==
  unselectedItems(after, sel) = unselectedItems(before, sel)

\* The list with the entry at index i taken out and put back at index j,
\* the entries in between shifted by one (array move-element), position by
\* position.
MovedTo(before, i, j) ==
  [k \in 1..Len(before) |->
     LET p == k - 1
     IN  IF p = j THEN At(before, i)
         ELSE IF i < j /\ p >= i /\ p < j THEN At(before, p + 1)
         ELSE IF j < i /\ p > j /\ p <= i THEN At(before, p - 1)
         ELSE At(before, p)]

\* The last handler was move(id, dir) with id in a selection of size > 1.
GroupMoved(dir) ==
  /\ last.op = "move" /\ last.dir = dir
  /\ isGroup(prev.selectedIds, last.id)
FirstSelected == SetMin(indices(prev.files, prev.selectedIds))
LastSelected  == SetMax(indices(prev.files, prev.selectedIds))

\* The last handler was dragEnd(activeId, overId) with both ids in the list
\* and distinct.
Dropped ==
  /\ last.op = "dragEnd"
  /\ last.over # None /\ last.over # last.id
  /\ last.id \in idSet(prev.files) /\ last.over \in idSet(prev.files)
ActiveIndex == findIndex(prev.files, last.id)
OverIndex   == findIndex(prev.files, last.over)

\* C1. Group move invariant: after move(id, 'up') with id in a selection of
\* size > 1 whose first selected index is > 0, the selected entries occupy
\* consecutive positions and are in the same relative order as before,
\* whatever gaps separated them.
C1_GroupUpContiguous ==
  (GroupMoved("up") /\ FirstSelected > 0) =>
     /\ Contiguous(files, selectedIds)
     /\ selectedItems(files, selectedIds)
          = selectedItems(prev.files, prev.selectedIds)

\* C1 witness: a group with a gap between its members, not at the top, has
\* been moved up.
C1_Witness ==
  /\ GroupMoved("up") /\ FirstSelected > 0
  /\ ~Contiguous(prev.files, prev.selectedIds)
  /\ files # prev.files

\* C2. Group move up placement: a complete no-op when the first selected
\* index is 0; otherwise the selected sub-sequence is spliced immediately
\* before the anchor (the entry that preceded the topmost selected entry),
\* so the block starts at index firstSelectedIndex - 1, and the unselected
\* entries keep their relative order.
C2_GroupUpPlacement ==
  GroupMoved("up") =>
     IF FirstSelected = 0
     THEN files = prev.files /\ selectedIds = prev.selectedIds
     ELSE /\ Len(files) = Len(prev.files)
          /\ BlockAt(files, prev.files, prev.selectedIds, FirstSelected - 1)
          /\ At(files, FirstSelected - 1 + Cardinality(indices(prev.files, prev.selectedIds)))
               = At(prev.files, FirstSelected - 1)
          /\ UnselectedKept(files, prev.files, prev.selectedIds)

\* C2 witness: [B, A, C] with {A, C} selected, moved up, is now [A, C, B].
C2_Witness ==
  /\ GroupMoved("up")
  /\ Len(prev.files) = 3
  /\ prev.selectedIds = {prev.files[2].id, prev.files[3].id}
  /\ files = <<prev.files[2], prev.files[3], prev.files[1]>>

\* C3. Group move down mirrors it: a complete no-op when the last selected
\* index is the list's last index; otherwise the selected sub-sequence is
\* spliced immediately after the entry that followed the bottommost
\* selected entry, and the unselected entries keep their relative order.
C3_GroupDownPlacement ==
  GroupMoved("down") =>
     IF LastSelected = Len(prev.files) - 1
     THEN files = prev.files /\ selectedIds = prev.selectedIds
     ELSE LET n == Cardinality(indices(prev.files, prev.selectedIds))
          IN  /\ Len(files) = Len(prev.files)
              /\ BlockAt(files, prev.files, prev.selectedIds, LastSelected + 2 - n)
              /\ At(files, LastSelected + 1 - n) = At(prev.files, LastSelected + 1)
              /\ UnselectedKept(files, prev.files, prev.selectedIds)

\* C3 witness: a group with a gap, not at the bottom, has been moved down
\* past the entry that followed it.
C3_Witness ==
  /\ GroupMoved("down") /\ LastSelected < Len(prev.files) - 1
  /\ ~Contiguous(prev.files, prev.selectedIds)
  /\ files[Len(files)].id \in selectedIds

\* C4. Group drag onto an unselected target: the result is the unselected
\* sub-sequence with the selected sub-sequence inserted immediately after
\* the target when activeId's index was before the target's, immediately
\* before the target otherwise.
C4_GroupDragPlacement ==
  (Dropped /\ isGroup(prev.selectedIds, last.id)
           /\ last.over \notin prev.selectedIds) =>
     LET n == Cardinality(indices(prev.files, prev.selectedIds))
         t == findIndex(files, last.over)
     IN  /\ Len(files) = Len(prev.files)
         /\ UnselectedKept(files, prev.files, prev.selectedIds)
         /\ IF ActiveIndex < OverIndex
            THEN BlockAt(files, prev.files, prev.selectedIds, t + 1)
            ELSE BlockAt(files, prev.files, prev.selectedIds, t - n)

\* C4 witness: the group was dragged from above the target, one of its
\* members lay below the target, and the whole block now follows the target.
C4_Witness ==
  /\ Dropped /\ isGroup(prev.selectedIds, last.id)
  /\ last.over \notin prev.selectedIds
  /\ ActiveIndex < OverIndex
  /\ LastSelected > OverIndex
  /\ files # prev.files

\* C5. Group drag onto a selected target: the entries at activeId's and
\* overId's positions exchange places and every other entry keeps its
\* index, for any distance between the two.  (Lines 118-120 call arrayMove,
\* which shifts the entries in between; the comment of line 116 says swap.)
C5_SelectedTargetSwap ==
  (Dropped /\ isGroup(prev.selectedIds, last.id)
           /\ last.over \in prev.selectedIds) =>
     files = swapAt(prev.files, ActiveIndex, OverIndex)

\* C6. Single-item drag: with activeId outside any multi-selection, the
\* entry at activeId's index is removed and reinserted at overId's index,
\* the entries in between shifting by one.
C6_SingleDragMove ==
  (Dropped /\ ~isGroup(prev.selectedIds, last.id)) =>
     /\ files = MovedTo(prev.files, ActiveIndex, OverIndex)
     /\ selectedIds = prev.selectedIds

\* C6 witness: index 0 of [e0, e1, e2, e3] dropped on index 2 gives
\* [e1, e2, e0, e3].
C6_Witness ==
  /\ Dropped /\ ~isGroup(prev.selectedIds, last.id)
  /\ Len(prev.files) = 4
  /\ ActiveIndex = 0 /\ OverIndex = 2
  /\ files = <<prev.files[2], prev.files[3], prev.files[1], prev.files[4]>>

\* C7. Two-phase drag gesture: dragStart changes the dragging flag alone;
\* dragEnd with no target, or with the target equal to activeId, leaves
\* the list and the selection unchanged and clears the flag.
C7_DragGestureFrame ==
  /\ last.op = "dragStart" =>
       /\ files = prev.files /\ selectedIds = prev.selectedIds
       /\ isDragging /\ ~prev.isDragging
  /\ (last.op = "dragEnd" /\ (last.over = None \/ last.over = last.id)) =>
       /\ files = prev.files /\ selectedIds = prev.selectedIds
       /\ ~isDragging /\ prev.isDragging

\* C7 witness: a drag of a member of a multi-selection ended without a
\* target.
C7_Witness ==
  /\ last.op = "dragEnd" /\ last.over = None
  /\ isGroup(prev.selectedIds, last.id)
  /\ Len(files) >= 3

\* ---------------------------------------------------------- merge claims
\* The pages of artifact d that come from the entry at index k of the list
\* it was merged from.
PagesOf(d, k) == {p \in 1..Len(d.pages) : d.pages[p].entry = k}

\* What an entry of type t contributes: how many pages, and of what kind.
KindOf(docFile) ==
  IF docFile.type = "pdf" THEN "pdf"
  ELSE IF docFile.type = "image" THEN "image" ELSE "placeholder"
CountOf(docFile) ==
  IF docFile.type = "pdf" THEN Len(Pool[docFile.file].pages) ELSE 1

C9_AdditiveRotationMod360 ==
  \A n \in 1..Len(downloads) :
    LET d == downloads[n]
    IN  \A p \in 1..Len(d.pages) :
          LET page    == d.pages[p]
              docFile == At(d.source, page.entry)
          IN  /\ page.kind = "pdf" =>
                   page.rotation
                     = (Pool[docFile.file].pages[page.index + 1] + docFile.rotation) % 360
              /\ page.kind = "image" => page.rotation = docFile.rotation

\* C9 as amended: every page copied from a pdf entry has the plain sum
\* pre-existing rotation + entry rotation as its rotation, not reduced
\* modulo 360 (so congruent to the claimed value, and equal to it when the
\* sum is below 360); the page of an image entry has the entry's rotation.
C9_AdditiveRotationSum ==
  \A n \in 1..Len(downloads) :
    LET d == downloads[n]
    IN  \A p \in 1..Len(d.pages) :
          LET page    == d.pages[p]
              docFile == At(d.source, page.entry)
              own     == Pool[docFile.file].pages[page.index + 1]
          IN  /\ page.kind = "pdf" =>
                   /\ page.rotation = own + docFile.rotation
                   /\ page.rotation % 360 = (own + docFile.rotation) % 360
                   /\ own + docFile.rotation < 360 =>
                        page.rotation = (own + docFile.rotation) % 360
              /\ page.kind = "image" => page.rotation = docFile.rotation

\* C9 witness: a page with /Rotate 270 of an entry rotated by 180 is in the
\* output with rotation 450, next to an image page.
C9_Witness ==
  \E n \in 1..Len(downloads) :
    LET d == downloads[n]
    IN  /\ \E p \in 1..Len(d.pages) :
             /\ d.pages[p].kind = "pdf" /\ d.pages[p].rotation = 450
             /\ At(d.source, d.pages[p].entry).rotation = 180
        /\ \E p \in 1..Len(d.pages) :
             d.pages[p].kind = "image" /\ d.pages[p].rotation = 90

\* C10. Merge failure semantics: when a turn of the loop fails, nothing is
\* downloaded (no artifact, not even a partial one), one failure is
\* reported, and the list, its rotations and the selection are as the merge
\* found them; an artifact is produced only from a list all of whose entries
\* were processed.
C10_MergeFailure ==
  /\ last.op = "mergeFail" =>
       /\ downloads = prev.downloads
       /\ alerts = prev.alerts + 1
       /\ files = prev.files
       /\ selectedIds = prev.selectedIds
       /\ ~isProcessing
  /\ \A n \in 1..Len(downloads) :
       \A k \in 1..Len(downloads[n].source) :
         /\ canProcess(downloads[n].source[k])
         /\ PagesOf(downloads[n], k - 1) # {}

\* C10 witness: the pipeline failed on an entry pdf-lib cannot process,
\* after the entries before it had put pages in the document.
C10_Witness ==
  /\ last.op = "mergeFail"
  /\ last.id >= 1 /\ last.over >= 1
  /\ ~canProcess(At(prev.files, last.id))
  /\ selectedIds # {}

\* -------------------------------------------------------------- C11..C20
\* C11. Merge is exclusive: at most one merge pass is running, the
\* in-flight flag is set exactly while it runs, and so no merge starts
\* while another is in flight.
C11_MergeExclusive ==
  /\ Len(merges) <= 1
  /\ isProcessing <=> merges # <<>>

\* C11 witness: a second merge was started, after the first one had ended.
C11_Witness ==
  /\ last.op = "merge"
  /\ Len(merges) = 1
  /\ isProcessing
  /\ Len(downloads) + alerts = 1

\* C12. Id uniqueness: in every state the entries of the list have pairwise
\* distinct ids (so no append made an entry with the id of an existing
\* entry or of another entry of its batch).
C12_IdUniqueness ==
  \A i, j \in 1..Len(files) : i # j => files[i].id # files[j].id

\* C13. Selection is a view over the list: every selected id is the id of
\* an entry of the list, after every handler (append, toggleSelect,
\* toggleSelectAll, rotate, delete, bulkDelete, clearAll, move, dragEnd);
\* a delete takes the entry and its id in the selection away together.
C13_SelectionWithinList ==
  /\ selectedIds \subseteq idSet(files)
  /\ last.op = "delete" =>
       /\ last.id \notin idSet(files)
       /\ last.id \notin selectedIds
       /\ selectedIds = prev.selectedIds \ {last.id}

\* C13 witness: a selected entry was deleted while another stays selected.
C13_Witness ==
  /\ last.op = "delete"
  /\ last.id \in prev.selectedIds
  /\ selectedIds # {}
  /\ \E i \in 1..Len(files) : files[i].rotation # 0

\* How many times url was handed to URL.revokeObjectURL.
Revocations(url) == Cardinality({k \in 1..Len(revoked) : revoked[k] = url})

\* C14. Preview resources are released: when delete, bulkDelete or clearAll
\* took entries out of the list, the preview URL of each entry that left
\* has been revoked exactly once.
C14_PreviewReleased ==
  last.op \in {"delete", "bulkDelete", "clearAll"} =>
    \A i \in 1..Len(prev.files) :
      LET entry == prev.files[i]
      IN  (entry.previewUrl # None /\ entry.id \notin idSet(files)) =>
            Revocations(entry.previewUrl) = 1

\* The entry as one press of a rotate button leaves it.
Advanced(entry) == [entry EXCEPT !.rotation = (entry.rotation + 90) % 360]

\* C15. rotate(id) takes the rotation of exactly the entry with that id
\* from r to (r + 90) mod 360 and leaves the order, every other entry and
\* the selection as they were; every rotation is in {0, 90, 180, 270}, and
\* four more rotations of an entry give its rotation back.
C15_RotateAdvances ==
  /\ \A i \in 1..Len(files) :
       /\ files[i].rotation \in {0, 90, 180, 270}
       /\ nextRotation(nextRotation(nextRotation(nextRotation(files[i].rotation))))
            = files[i].rotation
  /\ last.op = "rotate" =>
       /\ Len(files) = Len(prev.files)
       /\ \A i \in 1..Len(files) :
            files[i] = IF prev.files[i].id = last.id
                       THEN Advanced(prev.files[i]) ELSE prev.files[i]
       /\ Cardinality({i \in 1..Len(files) : files[i] # prev.files[i]}) = 1
       /\ selectedIds = prev.selectedIds

\* C15 witness: a rotate took an entry from 270 back to 0, in a list with
\* another entry whose rotation is not 0.
C15_Witness ==
  /\ last.op = "rotate"
  /\ \E i \in 1..Len(files) :
       /\ files[i].id = last.id
       /\ prev.files[i].rotation = 270
       /\ files[i].rotation = 0
  /\ \E j \in 1..Len(files) : files[j].id # last.id /\ files[j].rotation = 180

\* C16. bulkRotate advances by 90 (mod 360) the rotation of every entry
\* whose id is selected and leaves the order, the rotation of every other
\* entry and the selection as they were.
C16_BulkRotateSelected ==
  last.op = "bulkRotate" =>
    /\ Len(files) = Len(prev.files)
    /\ \A i \in 1..Len(files) :
         files[i] = IF prev.files[i].id \in prev.selectedIds
                    THEN Advanced(prev.files[i]) ELSE prev.files[i]
    /\ selectedIds = prev.selectedIds

\* C16 witness: a bulkRotate with two entries selected, one of them going
\* from 270 to 0, and an unselected entry between them keeping its 90.
C16_Witness ==
  /\ last.op = "bulkRotate"
  /\ Len(files) = 3
  /\ selectedIds = {files[1].id, files[3].id}
  /\ prev.files[1].rotation = 270 /\ files[1].rotation = 0
  /\ prev.files[3].rotation = 0 /\ files[3].rotation = 90
  /\ prev.files[2].rotation = 90 /\ files[2].rotation = 90

\* seq without the entry at position k (1-based).
RemoveAt(seq, k) == SubSeq(seq, 1, k - 1) \o SubSeq(seq, k + 1, Len(seq))

\* C17. delete(id) for an id of the list removes exactly that entry and
\* takes id out of the selection; the remaining entries keep their order
\* and rotation, and every other selected id stays selected.
C17_DeleteOne ==
  (last.op = "delete" /\ last.id \in idSet(prev.files)) =>
    /\ \E k \in 1..Len(prev.files) :
         /\ prev.files[k].id = last.id
         /\ files = RemoveAt(prev.files, k)
    /\ selectedIds = prev.selectedIds \ {last.id}

\* C17 witness: the middle one of three entries, selected, was deleted; a
\* neighbour stays selected and a neighbour keeps a rotation that is not 0.
C17_Witness ==
  /\ last.op = "delete"
  /\ Len(prev.files) = 3
  /\ prev.files[2].id = last.id
  /\ last.id \in prev.selectedIds
  /\ files[1].id \in selectedIds
  /\ files[2].rotation = 270

\* The entries of seq whose id is not in sel, in the order of seq.
RECURSIVE Remaining(_, _)
Remaining(seq, sel) ==
  IF seq = <<>> THEN <<>>
  ELSE IF Head(seq).id \in sel THEN Remaining(Tail(seq), sel)
  ELSE <<Head(seq)>> \o Remaining(Tail(seq), sel)

\* C18. bulkDelete removes, in one step, exactly the entries whose id is
\* selected; the remaining entries keep their order and rotation, and the
\* selection is empty afterwards, whatever it held.
C18_BulkDeleteSelected ==
  last.op = "bulkDelete" =>
    /\ files = Remaining(prev.files, prev.selectedIds)
    /\ Len(files) = Len(prev.files) - Cardinality(prev.selectedIds)
    /\ selectedIds = {}

\* C18 witness: the first and the last of three entries were selected and
\* deleted in one step; the middle one stays, with its rotation of 180.
C18_Witness ==
  /\ last.op = "bulkDelete"
  /\ Len(prev.files) = 3
  /\ prev.selectedIds = {prev.files[1].id, prev.files[3].id}
  /\ Len(files) = 1
  /\ files[1].rotation = 180

\* C19. toggleSelectAll selects every id of the list unless the selection
\* already is that full set, and then it empties the selection; the list
\* is left as it was.
C19_ToggleSelectAll ==
  last.op = "toggleSelectAll" =>
    /\ files = prev.files
    /\ selectedIds = IF prev.selectedIds = idSet(prev.files) THEN {}
                     ELSE idSet(prev.files)

\* C19 witness: a list of three with all three selected has an empty
\* selection after toggleSelectAll.
C19_Witness ==
  /\ last.op = "toggleSelectAll"
  /\ Len(files) = 3
  /\ Cardinality(prev.selectedIds) = 3
  /\ selectedIds = {}

\* C20. moveSingle: move(id, direction), for an id of the list that is not
\* in a selection of more than one, exchanges the entry with its immediate
\* neighbour in that direction and moves nothing else; the first entry
\* moved up, or the last moved down, leaves the list as it was.
C20_MoveSingle ==
  (/\ last.op = "move"
   /\ last.id \in idSet(prev.files)
   /\ ~(last.id \in prev.selectedIds /\ Cardinality(prev.selectedIds) > 1)) =>
    LET k == CHOOSE i \in 1..Len(prev.files) : prev.files[i].id = last.id
        n == IF last.dir = "up" THEN k - 1 ELSE k + 1
    IN  /\ files = IF n < 1 \/ n > Len(prev.files) THEN prev.files
                   ELSE [i \in 1..Len(prev.files) |->
                           IF i = k THEN prev.files[n]
                           ELSE IF i = n THEN prev.files[k]
                           ELSE prev.files[i]]
        /\ selectedIds = prev.selectedIds
        /\ uncaught = 0

\* C20 witness: the second of four entries, unselected while two others
\* are selected, went down by one.
C20_Witness ==
  /\ last.op = "move" /\ last.dir = "down"
  /\ Len(files) = 4
  /\ prev.files[2].id = last.id
  /\ files[3].id = last.id
  /\ Cardinality(selectedIds) = 2
  /\ last.id \notin selectedIds

\* -------------------------------------------------------------- C21..C30
\* C21. moveSingle round trip: move(id, 'up') followed at once by
\* move(id, 'down'), for an entry that was not first and is not in a
\* selection of more than one, leaves the list as it was before the two.
C21_MoveSingleRoundTrip ==
  (/\ older.on
   /\ older.last.op = "move" /\ older.last.dir = "up"
   /\ last.op = "move" /\ last.dir = "down"
   /\ last.id = older.last.id
   /\ last.id \in idSet(older.prev.files)
   /\ older.prev.files[1].id # last.id
   /\ ~(last.id \in older.prev.selectedIds
        /\ Cardinality(older.prev.selectedIds) > 1)) =>
    /\ files = older.prev.files
    /\ prev.files # older.prev.files

\* C21 witness: the last of three entries went up and came down again,
\* with the other two selected.
C21_Witness ==
  /\ older.on
  /\ older.last.op = "move" /\ older.last.dir = "up"
  /\ last.op = "move" /\ last.dir = "down"
  /\ last.id = older.last.id
  /\ Len(files) = 3
  /\ older.prev.files[3].id = last.id
  /\ prev.files[2].id = last.id
  /\ files[3].id = last.id
  /\ Cardinality(selectedIds) = 2 /\ last.id \notin selectedIds

\* C22. append puts the new entries at the tail of the list, in the order
\* of the batch, each with rotation 0; the entries that were there keep
\* their order and rotation, and the selection is left as it was.
C22_AppendAtTail ==
  last.op = "append" =>
    LET old == Len(prev.files)
        n   == Len(last.over)
    IN  /\ Len(files) = old + n
        /\ SubSeq(files, 1, old) = prev.files
        /\ \A i \in 1..n :
             /\ files[old + i].file = last.over[i]
             /\ files[old + i].id = last.id[i]
             /\ files[old + i].rotation = 0
        /\ selectedIds = prev.selectedIds

\* C22 witness: a batch of two was appended to a list of one entry that is
\* selected and rotated by 270.
C22_Witness ==
  /\ last.op = "append"
  /\ Len(last.over) = 2
  /\ Len(prev.files) = 1
  /\ files[1].rotation = 270
  /\ selectedIds = {files[1].id}
  /\ files[2].id = last.id[1] /\ files[3].id = last.id[2]

\* C23. Stale ids are no-ops for list mutation: rotate(id), delete(id) and
\* move(id, direction) with an id that no entry of the list has raise no
\* error and leave the list, every rotation and the selection as they were.
C23_StaleIdNoOp ==
  (/\ last.op \in {"rotate", "delete", "move"}
   /\ last.id \notin idSet(prev.files)) =>
    /\ files = prev.files
    /\ selectedIds = prev.selectedIds
    /\ uncaught = 0

\* The suffixes of the classification and the type stated for each.
StatedSuffixes ==
  { << <<".", "p", "d", "f">>, "pdf" >>,
    << <<".", "p", "n", "g">>, "image" >>,
    << <<".", "j", "p", "g">>, "image" >>,
    << <<".", "j", "p", "e", "g">>, "image" >>,
    << <<".", "w", "e", "b", "p">>, "image" >>,
    << <<".", "d", "o", "c">>, "office" >>,
    << <<".", "d", "o", "c", "x">>, "office" >>,
    << <<".", "x", "l", "s">>, "office" >>,
    << <<".", "x", "l", "s", "x">>, "office" >>,
    << <<".", "p", "p", "t">>, "office" >>,
    << <<".", "p", "p", "t", "x">>, "office" >> }

\* What comes before the suffix: nothing, a plain stem, stems that hold
\* another suffix of the table, a stem in capitals.
Stems ==
  { <<>>, <<"a">>, <<"R", "E", "P", "O", "R", "T">>,
    <<"a", ".", "p", "n", "g">>, <<"x", ".", "p", "d", "f">>,
    <<"y", ".", "d", "o", "c", "x">>, <<"n", ".", "t", "x", "t">> }

\* The suffix in capitals, and with its first letter in capitals.
InCapitals(s) ==
  [i \in 1..Len(s) |->
     IF \E k \in 1..26 : Lower[k] = s[i]
     THEN Upper[CHOOSE k \in 1..26 : Lower[k] = s[i]] ELSE s[i]]
Capitalised(s) == [i \in 1..Len(s) |-> IF i = 2 THEN InCapitals(s)[i] ELSE s[i]]

\* Names with a suffix of the table, with the type stated for them.
SuffixedNames ==
  UNION { { << stem \o form, c[2] >> :
              stem \in Stems,
              form \in {c[1], InCapitals(c[1]), Capitalised(c[1])} } :
          c \in StatedSuffixes }

\* Names that end in no suffix of the table.
OtherNames ==
  { <<>>, <<"p", "d", "f">>, <<"a", "p", "n", "g">>, <<"a", ".", "g", "i", "f">>,
    <<"a", ".", "p", "d", "f", "x">>, <<"a", ".", "p", "d", "f", ".", "t", "x", "t">>,
    <<"a", ".", "d", "o", "c", ".", "b", "a", "k">>, <<"a", ".", "p", "d">>,
    <<"a", ".", "j", "p", "e">>, <<"a", ".", "p", "n", "g", " ">>,
    <<"d", "o", "c", "x", ".">>, <<"a", ".", "t", "x", "t">>,
    <<".", "p", "d", "f", "/">>, <<"a", "_", "p", "p", "t">> }

\* getFileType gives every such name the type stated for it.
ClassifiedAsStated ==
  /\ \A c \in SuffixedNames : getFileType(c[1]) = c[2]
  /\ \A name \in OtherNames : getFileType(name) = "text"

\* The type stated for the name of each file of the pools: "b.PDF" and
\* "Q.PdF" end in .pdf, "j.JPG" in .jpg, "s.XLSX" in .xlsx; "g.gif", "scan",
\* "report.txt" and "p.ppt.bak" end in no suffix of the table.
StatedType(handle) ==
  [pdfA |-> "pdf", pdfB |-> "pdf", pdfBad |-> "pdf", imgPng |-> "image",
   imgJpg |-> "image", imgWebp |-> "image", docx |-> "office", txt |-> "text",
   gif |-> "text", scan |-> "text", pngText |-> "image", pdfMixed |-> "pdf",
   xlsx |-> "office", pptBak |-> "text", pdfImage |-> "pdf"][handle]

\* C24. Classification is total and depends only on the suffix of the
\* name, whatever the case of its letters: .pdf is pdf; .png, .jpg, .jpeg,
\* .webp are image; .doc, .docx, .xls, .xlsx, .ppt, .pptx are office; any
\* other name is text; and the type an entry got at ingestion stays with it
\* through every later handler.
C24_Classification ==
  /\ ClassifiedAsStated
  /\ \A i \in 1..Len(files) :
       /\ files[i].type \in {"pdf", "image", "office", "text"}
       /\ files[i].type = StatedType(files[i].file)
  /\ last.op # "append" =>
       \A i \in 1..Len(files) : \A j \in 1..Len(prev.files) :
         files[i].id = prev.files[j].id => files[i].type = prev.files[j].type

\* C24 witness: the entry of "Q.PdF" (no MIME hint) is a pdf and has just
\* been rotated, next to the entry of "p.ppt.bak", which is text.
C24_Witness ==
  /\ last.op = "rotate"
  /\ \E i, j \in 1..Len(files) :
       /\ files[i].id = last.id
       /\ files[i].file = "pdfMixed" /\ files[i].type = "pdf"
       /\ files[i].rotation = 90
       /\ files[j].file = "pptBak" /\ files[j].type = "text"

\* C25. In every state an entry holds a preview resource only if its type
\* is image, whatever name and MIME hint its file came with.
C25_PreviewOnlyForImages ==
  \A i \in 1..Len(files) :
    files[i].previewUrl # None => files[i].type = "image"

\* after holds the entries of before, each as it was and exactly once.
PermutationOf(after, before) ==
  /\ Len(after) = Len(before)
  /\ \A i \in 1..Len(before) :
       Cardinality({j \in 1..Len(after) : after[j] = before[i]}) = 1
  /\ \A i, j \in 1..Len(after) : i # j => after[i].id # after[j].id

\* C26. Reorders are atomic permutations: every move (single or group) and
\* every dragEnd (single, group onto an unselected target, group onto a
\* selected target) leaves the list as it was or yields a permutation of
\* it - the same entries, each exactly once, with their ids, rotations and
\* types - and leaves the selection as it was.
C26_ReorderIsPermutation ==
  last.op \in {"move", "dragEnd"} =>
    /\ PermutationOf(files, prev.files)
    /\ selectedIds = prev.selectedIds
    /\ uncaught = 0

\* C26 witness: a group of two was dropped on an unselected entry and the
\* order changed; the three entries have three different rotations.
C26_Witness ==
  /\ last.op = "dragEnd"
  /\ Len(files) = 3
  /\ Cardinality(selectedIds) = 2
  /\ last.id \in selectedIds /\ last.over \notin selectedIds
  /\ last.over \in idSet(files)
  /\ files # prev.files
  /\ Cardinality({files[i].rotation : i \in 1..3}) = 3

\* C27. dragEnd with a stale id is a no-op: when activeId or overId
\* (distinct, overId present) is the id of no entry of the list, dragEnd
\* raises no error and leaves the list as it was, in the single-item branch
\* and in the group branch.
C27_StaleDragNoOp ==
  (/\ last.op = "dragEnd"
   /\ last.over # None
   /\ last.id # last.over
   /\ (last.id \notin idSet(prev.files) \/ last.over \notin idSet(prev.files))) =>
    /\ files = prev.files
    /\ uncaught = 0

\* C28. toggleSelect(id) flips the membership of id in the selection and
\* changes nothing else; with an id that no entry of the list has it is a
\* no-op, so the selection gains no id without an entry.
C28_ToggleSelect ==
  last.op = "toggleSelect" =>
    /\ files = prev.files
    /\ selectedIds =
         IF last.id \notin idSet(prev.files) THEN prev.selectedIds
         ELSE IF last.id \in prev.selectedIds THEN prev.selectedIds \ {last.id}
         ELSE prev.selectedIds \cup {last.id}

\* `after` is `before` with the entry of this id exchanged with its
\* neighbour in the direction asked for.
MovedByOne(after, before, id, direction) ==
  LET index    == findIndex(before, id)
      newIndex == IF direction = "up" THEN index - 1 ELSE index + 1
  IN  /\ index # -1
      /\ newIndex >= 0 /\ newIndex < Len(before)
      /\ Len(after) = Len(before)
      /\ At(after, newIndex) = At(before, index)
      /\ At(after, index) = At(before, newIndex)
      /\ \A k \in 0..(Len(before) - 1) :
           (k # index /\ k # newIndex) => At(after, k) = At(before, k)

\* C29: a performMove run by the View Transitions callback, for an entry
\* that was not part of a multi-selection at the click, moves the entry of
\* the requested id by one position in the requested direction or leaves
\* the list as it is, whatever handlers ran since the click.
C29_DeferredMoveTargets ==
  (last.op = "performMove" /\ ~isGroup(last.over.selectedIds, last.id)) =>
    /\ selectedIds = prev.selectedIds
    /\ \/ files = prev.files
       \/ MovedByOne(files, prev.files, last.id, last.dir)

\* The document the pipeline makes of the first n entries of `items`.
RECURSIVE MergedUpTo(_, _)
MergedUpTo(items, n) ==
  IF n = 0 THEN <<>>
  ELSE addPages(MergedUpTo(items, n - 1), entryPages(items[n], n - 1))

\* A merge in flight holds the list of its trigger and the pages of the
\* entries of that list it went through; a finished one downloaded the
\* pages of the whole list of its trigger.
MergeFollowsTrigger ==
  /\ \A t \in 1..Len(merges) :
       /\ merges[t].files = merges[t].start.files
       /\ merges[t].pages = MergedUpTo(merges[t].start.files, merges[t].i)
  /\ last.op = "mergeSave" =>
       LET d == downloads[Len(downloads)]
       IN  /\ d.source = prev.files
           /\ d.pages = MergedUpTo(prev.files, Len(prev.files))

\* The steps of a merge: the click, a turn of the loop, the failure, the save.
MergeOps == {"merge", "mergeStep", "mergeFail", "mergeSave"}

\* C30: list handlers running while a merge is in flight do not change its
\* output: the pages follow the order and the rotations of the list at the
\* trigger; and no step of a merge changes the list or the selection.
C30_MergeOnTriggerState ==
  /\ []MergeFollowsTrigger
  /\ [][last'.op \in MergeOps => (files' = files /\ selectedIds' = selectedIds)]_vars

\* C30 witness: a merge of two entries was saved after the list had been
\* reordered and rotated and the selection changed since its trigger; the
\* pages have the rotations of the trigger, in its order.
C30_Witness ==
  /\ last.op = "mergeSave"
  /\ Len(prev.files) = 2 /\ Len(files) = 2
  /\ files[1].id = prev.files[2].id /\ files[2].id = prev.files[1].id
  /\ \E i \in 1..2 : files[i].rotation # prev.files[3 - i].rotation
  /\ selectedIds # prev.selectedIds
  /\ prev.files[1].rotation # prev.files[2].rotation
  /\ downloads[Len(downloads)].pages[1].rotation = prev.files[1].rotation
  /\ downloads[Len(downloads)].pages[2].rotation = prev.files[2].rotation

\* A click on the merge button with an empty list (line 247) left the flag,
\* the downloads and the failure count as they were and started nothing.
EmptyMergeDoesNothing ==
  (last.op = "merge" /\ prev.files = <<>>) =>
    /\ ~isProcessing /\ merges = <<>>
    /\ downloads = prev.downloads /\ alerts = prev.alerts
    /\ files = prev.files /\ selectedIds = prev.selectedIds

\* C31: a merge in flight eventually ends with isProcessing cleared, by
\* the save or by the failure, after which the merge button is enabled
\* again; a merge triggered on an empty list does nothing and never sets
\* the flag.
C31_MergeEnds ==
  /\ isProcessing ~> (~isProcessing /\ merges = <<>>)
  /\ [](last.op \in {"mergeSave", "mergeFail"} => (~isProcessing /\ merges = <<>>))
  /\ []EmptyMergeDoesNothing

\* C31 witness: a second merge, started after the first one had failed,
\* has ended as well, this one with a download.
C31_Witness ==
  /\ last.op = "mergeSave"
  /\ ~isProcessing
  /\ alerts = 1 /\ Len(downloads) = 1
  /\ files # <<>>

\* Two group moves in a row, the first in direction first and the second
\* in the other one, each asked for a member of the same multi-selection
\* whose entries were a contiguous block of the list.
GroupTrip(first, second) ==
  /\ older.on
  /\ older.last.op = "move" /\ older.last.dir = first
  /\ last.op = "move" /\ last.dir = second
  /\ isGroup(older.prev.selectedIds, older.last.id)
  /\ isGroup(prev.selectedIds, last.id)
  /\ prev.selectedIds = older.prev.selectedIds
  /\ prev.selectedIds \subseteq idSet(older.prev.files)
  /\ Contiguous(older.prev.files, older.prev.selectedIds)

\* C32: the group move round trip.  A contiguous selected block of more
\* than one entry that does not start at index 0 is back where it was, and
\* the whole list in its original order, after moveGroup 'up' then 'down';
\* and likewise after 'down' then 'up' for a block that does not end at
\* the last index.
C32_MoveGroupRoundTrip ==
  /\ (GroupTrip("up", "down")
      /\ SetMin(indices(older.prev.files, older.prev.selectedIds)) # 0) =>
       /\ files = older.prev.files
       /\ prev.files # older.prev.files
  /\ (GroupTrip("down", "up")
      /\ SetMax(indices(older.prev.files, older.prev.selectedIds))
           # Len(older.prev.files) - 1) =>
       /\ files = older.prev.files
       /\ prev.files # older.prev.files

\* C32 witness: the block of the last two of three entries went to the top
\* and came back under the first entry.
C32_Witness ==
  /\ GroupTrip("up", "down")
  /\ Len(files) = 3
  /\ selectedIds = {files[2].id, files[3].id}
  /\ prev.files = <<files[2], files[3], files[1]>>
  /\ older.prev.files = files

====
